---------------------------- MODULE Spec2Model ----------------------------
(***************************************************************************)
(* State-machine model of the two remix editors of                         *)
(* src/src/CustomRemixMaker.jsx: CustomCoupleRemixMaker (order-only) and   *)
(* AdvancedRemixMaker (waveform trim + speed).  One action per event       *)
(* handler; an async handler is split at its await into the call and the   *)
(* two ways the awaited promise settles.  Times are whole seconds, speeds  *)
(* are tenths (1.0 is 10), list positions are 1-based.                     *)
(***************************************************************************)
EXTENDS Integers, Sequences, FiniteSets, TLC

VARIABLES
    variant,          \* which editor is mounted: "couple" or "advanced"
    uploadedFiles,    \* useState([])   full-uploads record
    orderedClips,     \* useState([])   orderedFiles / orderedClips
    remixUrl,         \* useState(null) blob url of the last render
    remixing,         \* useState(false)
    recording,        \* useState(false)
    backgroundMusic,  \* useState(null)
    mediaRecorderRef, \* useRef(null): "null" or the state of the recorder held
    micRequests,      \* getUserMedia promises not yet settled
    stopEvents,       \* recorder "stop" events queued, not yet delivered
    uploads,          \* POST /upload requests of customUpload in flight
    bgUploads,        \* POST /upload requests of handleBgUpload in flight
    remixes,          \* POST /remix requests in flight (prior: history, the
                      \* remixUrl when handleRemix was called)
    trimmers,         \* per rendered clip: the index its waveform handler captured
    notice,           \* message.* notifications surfaced by the latest handler
    calls,            \* history: number of customUpload calls so far
    bgCalls,          \* history: number of handleBgUpload calls so far
    issued,           \* history: number of /remix requests issued so far
    starts,           \* history: number of startRecording calls so far
    uploadLog,        \* history: successful uploads, in completion order
    reordered,        \* history: a drag-reorder has happened
    trimmerMounted,   \* one WaveformTrimmer: is it in the tree
    trimmerUrl,       \* its audioUrl prop at the last render
    trimmerClip,      \* the clip prop the last effect run closed over, if any
    waveSurfer,       \* its useRef(null): {} or {the instance held}
    cleanupSet,       \* the last effect run returned its cleanup function
    region,           \* the region of the instance held: {} before "ready"
    liveWidgets,      \* WaveSurfer instances created and not destroyed
    createdWidgets,   \* history: number of WaveSurfer.create calls so far
    peakLive          \* history: most instances alive at one instant so far

\* the state of the WaveformTrimmer
widget == <<trimmerMounted, trimmerUrl, trimmerClip, waveSurfer, cleanupSet,
            region, liveWidgets, createdWidgets, peakLive>>

vars == <<variant, uploadedFiles, orderedClips, remixUrl, remixing, recording,
          backgroundMusic, mediaRecorderRef, micRequests, stopEvents, uploads,
          bgUploads, remixes, trimmers, notice, calls, bgCalls, issued, starts,
          uploadLog, reordered, widget>>

\* the editor's own state, without notifications and history
editorState == <<uploadedFiles, orderedClips, remixUrl, remixing, recording,
                 backgroundMusic>>

-----------------------------------------------------------------------------
\* Bounds of the model

MaxUploads == 2

MaxBgUploads == 1

MaxRemixes == 2

MaxRecordings == 1

\* WaveSurfer.create calls
MaxWidgets == 5

-----------------------------------------------------------------------------
\* Values

NULL == "null"

Variants == {"couple", "advanced"}

FileNames == {"a.mp3", "b.mp3"}

RecordingName == "recording.webm"

\* locators the upload endpoint may answer with (opaque to the client)
ServerUrls == {"/uploads/a.mp3", "/uploads/b.mp3"}

backgroundOptions == {NULL, "/uploads/romantic_piano.mp3", "/uploads/soft_guitar.mp3"}

\* region bounds a trim gesture may report
TrimValues == {0, 12}

SliderMin == 5

SliderMax == 20

\* a variant of SliderValues for a slider without its min and max
SliderValuesUnbounded == {SliderMin - 1, SliderMax + 1}

SliderValues == {SliderMin, SliderMax}

SafeTrimEndFallback == 9999

\* URL.createObjectURL: a fresh url per response
BlobUrl(id) == <<"blob:1", "blob:2", "blob:3", "blob:4", "blob:5">>[id]

Range(s) == {s[i] : i \in DOMAIN s}

-----------------------------------------------------------------------------
\* Pure pieces of the handlers

\* const fileObj = { name: file.name, url: fileUrl }
FileObj(name, url) == [name |-> name, url |-> url]

\* const newClip = { name, url, trimStart: 0, trimEnd: 0, speed: 1.0 }
NewClip(name, url) ==
    [name |-> name, url |-> url, trimStart |-> 0, trimEnd |-> 0, speed |-> 10]

MakeClip(v, name, url) ==
    IF v = "advanced" THEN NewClip(name, url) ELSE FileObj(name, url)

\* a variant of SafeTrimEnd without the fallback
SafeTrimEndAsStored(clip) == clip.trimEnd

\* const safeTrimEnd = clip.trimEnd > 0 ? clip.trimEnd : 9999
SafeTrimEnd(clip) ==
    IF clip.trimEnd > 0 THEN clip.trimEnd ELSE SafeTrimEndFallback

\* orderedClips.map((clip) => ({ url, trimStart, trimEnd: safeTrimEnd, speed }))
ClipsPayload(clips) ==
    [i \in 1..Len(clips) |->
        [url |-> clips[i].url, trimStart |-> clips[i].trimStart,
         trimEnd |-> SafeTrimEnd(clips[i]), speed |-> clips[i].speed]]

\* orderedFiles.map((file) => file.url)
UrlsPayload(files) == [i \in 1..Len(files) |-> files[i].url]

\* if (backgroundMusic) payload.backgroundMusic = backgroundMusic
WithBackground(payload, bg) ==
    IF bg # NULL THEN payload @@ [backgroundMusic |-> bg] ELSE payload

\* a variant of RemixPayload that maps the uploads record, not the given list
RemixPayloadOfUploads(v, clips, bg) ==
    IF v = "advanced"
    THEN WithBackground([clips |-> ClipsPayload(uploadedFiles)], bg)
    ELSE WithBackground([urls |-> UrlsPayload(uploadedFiles)], bg)

RemixPayload(v, clips, bg) ==
    IF v = "advanced"
    THEN WithBackground([clips |-> ClipsPayload(clips)], bg)
    ELSE WithBackground([urls |-> UrlsPayload(clips)], bg)

\* a variant of AppendClip that keeps one clip per url
AppendClipOncePerUrl(prev, clip) ==
    IF \E i \in 1..Len(prev) : prev[i].url = clip.url
    THEN prev ELSE Append(prev, clip)

\* (prev) => [...prev, newClip]
AppendClip(prev, clip) == Append(prev, clip)

\* a variant of MergeClip that rebuilds the clip from its defaults
MergeClipOntoDefaults(clip, newData) ==
    [f \in DOMAIN clip \cup DOMAIN newData |->
        IF f \in DOMAIN newData THEN newData[f]
        ELSE NewClip(clip.name, clip.url)[f]]

\* { ...clip, ...newData }
MergeClip(clip, newData) ==
    [f \in DOMAIN clip \cup DOMAIN newData |->
        IF f \in DOMAIN newData THEN newData[f] ELSE clip[f]]

\* prev.map((clip, i) => (i === index ? { ...clip, ...newData } : clip))
UpdateClipList(prev, index, newData) ==
    [i \in 1..Len(prev) |->
        IF i = index THEN MergeClip(prev[i], newData) ELSE prev[i]]

\* a variant of MoveItem that writes the dragged item over the target
MoveItemOverwriting(list, from, to) ==
    [k \in 1..Len(list) |-> IF k = to THEN list[from] ELSE list[k]]

\* the list a drag hands to setList: the item at position from moved to position to
MoveItem(list, from, to) ==
    LET without == [k \in 1..(Len(list) - 1) |->
                        IF k < from THEN list[k] ELSE list[k + 1]]
    IN  [k \in 1..Len(list) |->
            IF k < to THEN without[k]
            ELSE IF k = to THEN list[from]
            ELSE without[k - 1]]

-----------------------------------------------------------------------------
Init ==
    /\ variant \in Variants
    /\ uploadedFiles = <<>>
    /\ orderedClips = <<>>
    /\ remixUrl = NULL
    /\ remixing = FALSE
    /\ recording = FALSE
    /\ backgroundMusic = NULL
    /\ mediaRecorderRef = NULL
    /\ micRequests = 0
    /\ stopEvents = 0
    /\ uploads = {}
    /\ bgUploads = 0
    /\ remixes = {}
    /\ trimmers = <<>>
    /\ notice = <<>>
    /\ calls = 0
    /\ bgCalls = 0
    /\ issued = 0
    /\ starts = 0
    /\ uploadLog = <<>>
    /\ reordered = FALSE
    /\ trimmerMounted = FALSE
    /\ trimmerUrl = NULL
    /\ trimmerClip = {}
    /\ waveSurfer = {}
    /\ cleanupSet = FALSE
    /\ region = {}
    /\ liveWidgets = {}
    /\ createdWidgets = 0
    /\ peakLive = 0


-----------------------------------------------------------------------------
\* 1) Custom file upload

\* customUpload up to its await: the POST /upload is issued
IssueUpload(name, fromRecorder) ==
    /\ calls < MaxUploads
    /\ calls' = calls + 1
    /\ uploads' = uploads \cup
           {[call |-> calls + 1, name |-> name, fromRecorder |-> fromRecorder]}

\* the Upload control hands a picked file to customRequest={customUpload}
CustomUpload ==
    /\ \E name \in FileNames : IssueUpload(name, FALSE)
    /\ notice' = <<>>
    /\ UNCHANGED <<widget, variant, editorState, mediaRecorderRef, micRequests,
                   stopEvents, bgUploads, remixes, trimmers, bgCalls, issued,
                   starts, uploadLog, reordered>>

\* customUpload after its await, the request answered with { url }
UploadSucceeds ==
    \E req \in uploads, url \in ServerUrls :
        LET clip == MakeClip(variant, req.name, url) IN
        /\ uploads' = uploads \ {req}
        /\ uploadedFiles' = AppendClip(uploadedFiles, clip)
        /\ orderedClips' = AppendClip(orderedClips, clip)
        /\ trimmers' = IF variant = "advanced"
                       THEN Append(trimmers, Len(orderedClips) + 1)
                       ELSE trimmers
        /\ notice' = IF req.fromRecorder THEN <<"Recording uploaded">> ELSE <<>>
        /\ uploadLog' = Append(uploadLog,
                           [call |-> req.call, name |-> req.name, url |-> url])
        /\ UNCHANGED <<widget, variant, remixUrl, remixing, recording, backgroundMusic,
                       mediaRecorderRef, micRequests, stopEvents, bgUploads,
                       remixes, calls, bgCalls, issued, starts, reordered>>

\* a variant of UploadFails that keeps a clip for the rejected file
UploadFailsKeepingClip ==
    \E req \in uploads :
        LET clip == MakeClip(variant, req.name, NULL) IN
        /\ uploads' = uploads \ {req}
        /\ uploadedFiles' = AppendClip(uploadedFiles, clip)
        /\ orderedClips' = AppendClip(orderedClips, clip)
        /\ trimmers' = IF variant = "advanced"
                       THEN Append(trimmers, Len(orderedClips) + 1)
                       ELSE trimmers
        /\ notice' = IF req.fromRecorder
                     THEN <<"Upload failed", "Failed to upload recording">>
                     ELSE <<"Upload failed">>
        /\ UNCHANGED <<widget, variant, remixUrl, remixing, recording, backgroundMusic,
                       mediaRecorderRef, micRequests, stopEvents, bgUploads,
                       remixes, calls, bgCalls, issued, starts, uploadLog,
                       reordered>>

\* a variant of UploadFails that leaves the recording flag cleared
UploadFailsResettingRecording ==
    \E req \in uploads :
        /\ uploads' = uploads \ {req}
        /\ notice' = IF req.fromRecorder
                     THEN <<"Upload failed", "Failed to upload recording">>
                     ELSE <<"Upload failed">>
        /\ recording' = FALSE
        /\ UNCHANGED <<widget, variant, uploadedFiles, orderedClips, remixUrl,
                       remixing, backgroundMusic, mediaRecorderRef,
                       micRequests, stopEvents, bgUploads, remixes, trimmers,
                       calls, bgCalls, issued, starts, uploadLog, reordered>>

\* customUpload's catch: the request was rejected
UploadFails ==
    \E req \in uploads :
        /\ uploads' = uploads \ {req}
        /\ notice' = IF req.fromRecorder
                     THEN <<"Upload failed", "Failed to upload recording">>
                     ELSE <<"Upload failed">>
        /\ UNCHANGED <<widget, variant, editorState, mediaRecorderRef, micRequests,
                       stopEvents, bgUploads, remixes, trimmers, calls, bgCalls,
                       issued, starts, uploadLog, reordered>>

-----------------------------------------------------------------------------
\* 2) Audio recording

\* startRecording up to its await (the button shows it while recording is false)
StartRecording ==
    /\ ~recording
    /\ starts < MaxRecordings
    /\ starts' = starts + 1
    /\ micRequests' = micRequests + 1
    /\ notice' = <<>>
    /\ UNCHANGED <<widget, variant, editorState, mediaRecorderRef, stopEvents, uploads,
                   bgUploads, remixes, trimmers, calls, bgCalls, issued,
                   uploadLog, reordered>>

\* getUserMedia resolved: a new recorder is stored, started, recording set
MicGranted ==
    /\ micRequests > 0
    /\ micRequests' = micRequests - 1
    /\ mediaRecorderRef' = "recording"
    /\ recording' = TRUE
    /\ notice' = <<"Recording started">>
    /\ UNCHANGED <<widget, variant, uploadedFiles, orderedClips, remixUrl, remixing,
                   backgroundMusic, stopEvents, uploads, bgUploads, remixes,
                   trimmers, calls, bgCalls, issued, starts, uploadLog,
                   reordered>>

\* a variant of MicDenied that has set the recording flag before the await
MicDeniedAfterFlag ==
    /\ micRequests > 0
    /\ micRequests' = micRequests - 1
    /\ recording' = TRUE
    /\ notice' = <<"Could not start recording">>
    /\ UNCHANGED <<widget, variant, uploadedFiles, orderedClips, remixUrl, remixing,
                   backgroundMusic, mediaRecorderRef, stopEvents, uploads,
                   bgUploads, remixes, trimmers, calls, bgCalls, issued, starts,
                   uploadLog, reordered>>

\* getUserMedia rejected: startRecording's catch
MicDenied ==
    /\ micRequests > 0
    /\ micRequests' = micRequests - 1
    /\ notice' = <<"Could not start recording">>
    /\ UNCHANGED <<widget, variant, editorState, mediaRecorderRef, stopEvents, uploads,
                   bgUploads, remixes, trimmers, calls, bgCalls, issued, starts,
                   uploadLog, reordered>>

\* getUserMedia resolved, but new MediaRecorder(stream) or start() threw:
\* startRecording's catch.  When start() threw, the ref already holds the
\* new recorder, which never started.
RecorderStartFails ==
    /\ micRequests > 0
    /\ micRequests' = micRequests - 1
    /\ mediaRecorderRef' \in {mediaRecorderRef, "inactive"}
    /\ notice' = <<"Could not start recording">>
    /\ UNCHANGED <<widget, variant, editorState, stopEvents, uploads, bgUploads,
                   remixes, trimmers, calls, bgCalls, issued, starts,
                   uploadLog, reordered>>

\* a variant of StopRecording that clears the flag only in the stop callback
StopRecordingKeepingFlag ==
    /\ recording
    /\ mediaRecorderRef # NULL
    /\ stopEvents' = stopEvents + 1
    /\ mediaRecorderRef' = "inactive"
    /\ notice' = <<"Recording stopped">>
    /\ UNCHANGED <<widget, variant, editorState, micRequests, uploads, bgUploads,
                   remixes, trimmers, calls, bgCalls, issued, starts,
                   uploadLog, reordered>>

\* stopRecording (the button shows it while recording is true)
StopRecording ==
    /\ recording
    /\ IF mediaRecorderRef # NULL
       THEN /\ stopEvents' = IF mediaRecorderRef = "recording"
                             THEN stopEvents + 1 ELSE stopEvents
            /\ mediaRecorderRef' = "inactive"
            /\ recording' = FALSE
            /\ notice' = <<"Recording stopped">>
       ELSE /\ notice' = <<>>
            /\ UNCHANGED <<stopEvents, mediaRecorderRef, recording>>
    /\ UNCHANGED <<widget, variant, uploadedFiles, orderedClips, remixUrl, remixing,
                   backgroundMusic, micRequests, uploads, bgUploads, remixes,
                   trimmers, calls, bgCalls, issued, starts, uploadLog,
                   reordered>>

\* the recorder's onstop: the recorded file goes to customUpload
HandleRecordingStop ==
    /\ stopEvents > 0
    /\ stopEvents' = stopEvents - 1
    /\ IssueUpload(RecordingName, TRUE)
    /\ notice' = <<>>
    /\ UNCHANGED <<widget, variant, editorState, mediaRecorderRef, micRequests,
                   bgUploads, remixes, trimmers, bgCalls, issued, starts,
                   uploadLog, reordered>>

-----------------------------------------------------------------------------
\* 3) Final remix

ValidationError(v) ==
    IF v = "advanced"
    THEN <<"Please add at least one audio clip.">>
    ELSE <<"Please upload or record at least one audio file.">>

\* a variant of HandleRemix without the test for an empty collection
HandleRemixUnchecked ==
    /\ issued < MaxRemixes
    /\ issued' = issued + 1
    /\ remixing' = TRUE
    /\ remixUrl' = IF variant = "advanced" THEN NULL ELSE remixUrl
    /\ remixes' = remixes \cup
           {[id |-> issued + 1,
             payload |-> RemixPayload(variant, orderedClips, backgroundMusic),
             prior |-> remixUrl]}
    /\ notice' = <<>>
    /\ UNCHANGED <<widget, variant, uploadedFiles, orderedClips, recording,
                   backgroundMusic, mediaRecorderRef, micRequests,
                   stopEvents, uploads, bgUploads, trimmers, calls,
                   bgCalls, starts, uploadLog, reordered>>

\* handleRemix up to its await.  The handler tests only the length of the
\* collection; it never reads remixing.
HandleRemix ==
    IF Len(orderedClips) = 0
    THEN /\ notice' = ValidationError(variant)
         /\ UNCHANGED <<widget, variant, editorState, mediaRecorderRef, micRequests,
                        stopEvents, uploads, bgUploads, remixes, trimmers,
                        calls, bgCalls, issued, starts, uploadLog, reordered>>
    ELSE /\ issued < MaxRemixes
         /\ issued' = issued + 1
         /\ remixing' = TRUE
         /\ remixUrl' = IF variant = "advanced" THEN NULL ELSE remixUrl
         /\ remixes' = remixes \cup
                {[id |-> issued + 1,
                  payload |-> RemixPayload(variant, orderedClips, backgroundMusic),
                  prior |-> remixUrl]}
         /\ notice' = <<>>
         /\ UNCHANGED <<widget, variant, uploadedFiles, orderedClips, recording,
                        backgroundMusic, mediaRecorderRef, micRequests,
                        stopEvents, uploads, bgUploads, trimmers, calls,
                        bgCalls, starts, uploadLog, reordered>>

\* a variant of RemixSucceeds that starts a fresh session after the render
RemixSucceedsResettingEditor ==
    \E req \in remixes :
        /\ remixes' = remixes \ {req}
        /\ remixUrl' = BlobUrl(req.id)
        /\ notice' = <<"Remix created successfully!">>
        /\ remixing' = FALSE
        /\ orderedClips' = <<>>
        /\ trimmers' = <<>>
        /\ backgroundMusic' = NULL
        /\ UNCHANGED <<widget, variant, uploadedFiles, recording,
                       mediaRecorderRef, micRequests,
                       stopEvents, uploads, bgUploads, calls,
                       bgCalls, issued, starts, uploadLog, reordered>>

\* handleRemix after its await, the request answered with the rendered audio
RemixSucceeds ==
    \E req \in remixes :
        /\ remixes' = remixes \ {req}
        /\ remixUrl' = BlobUrl(req.id)
        /\ notice' = <<"Remix created successfully!">>
        /\ remixing' = FALSE
        /\ UNCHANGED <<widget, variant, uploadedFiles, orderedClips, recording,
                       backgroundMusic, mediaRecorderRef, micRequests,
                       stopEvents, uploads, bgUploads, trimmers, calls,
                       bgCalls, issued, starts, uploadLog, reordered>>

\* a variant of RemixFails that returns from the catch without resetting
\* the busy flag
RemixFailsLeavingRemixing ==
    \E req \in remixes :
        /\ remixes' = remixes \ {req}
        /\ notice' = <<"Failed to create remix.">>
        /\ UNCHANGED <<widget, variant, editorState, mediaRecorderRef,
                       micRequests, stopEvents, uploads, bgUploads, trimmers,
                       calls, bgCalls, issued, starts, uploadLog, reordered>>

\* a variant of RemixFails that also clears the result
RemixFailsClearingResult ==
    \E req \in remixes :
        /\ remixes' = remixes \ {req}
        /\ notice' = <<"Failed to create remix.">>
        /\ remixing' = FALSE
        /\ remixUrl' = NULL
        /\ UNCHANGED <<widget, variant, uploadedFiles, orderedClips,
                       recording, backgroundMusic, mediaRecorderRef,
                       micRequests, stopEvents, uploads, bgUploads, trimmers,
                       calls, bgCalls, issued, starts, uploadLog, reordered>>

\* handleRemix's catch, then setRemixing(false)
RemixFails ==
    \E req \in remixes :
        /\ remixes' = remixes \ {req}
        /\ notice' = <<"Failed to create remix.">>
        /\ remixing' = FALSE
        /\ UNCHANGED <<widget, variant, uploadedFiles, orderedClips, remixUrl,
                       recording, backgroundMusic, mediaRecorderRef,
                       micRequests, stopEvents, uploads, bgUploads, trimmers,
                       calls, bgCalls, issued, starts, uploadLog, reordered>>

-----------------------------------------------------------------------------
\* 4) Update clip properties (trim, speed)

\* updateClip(index, newData)
UpdateClip(index, newData) ==
    /\ orderedClips' = UpdateClipList(orderedClips, index, newData)
    /\ notice' = <<>>
    /\ UNCHANGED <<widget, variant, uploadedFiles, remixUrl, remixing, recording,
                   backgroundMusic, mediaRecorderRef, micRequests, stopEvents,
                   uploads, bgUploads, remixes, trimmers, calls, bgCalls,
                   issued, starts, uploadLog, reordered>>

\* the speed Slider of the clip rendered at position index
SliderChange ==
    /\ variant = "advanced"
    /\ \E index \in 1..Len(orderedClips), val \in SliderValues :
           UpdateClip(index, [speed |-> val])

\* "region-updated" of the waveform created for the clip rendered at position
\* k: its handler calls the onTrimChange it was created with
RegionUpdatedAt(k, start, end) ==
    /\ variant = "advanced"
    /\ start <= end
    /\ UpdateClip(trimmers[k], [trimStart |-> start, trimEnd |-> end])

RegionUpdated ==
    \E k \in 1..Len(orderedClips), start \in TrimValues, end \in TrimValues :
        RegionUpdatedAt(k, start, end)

-----------------------------------------------------------------------------
\* 5) Background music

\* the Select's onChange
SetBackgroundMusic ==
    \E value \in backgroundOptions :
        /\ backgroundMusic' = value
        /\ notice' = <<>>
        /\ UNCHANGED <<widget, variant, uploadedFiles, orderedClips, remixUrl, remixing,
                       recording, mediaRecorderRef, micRequests, stopEvents,
                       uploads, bgUploads, remixes, trimmers, calls, bgCalls,
                       issued, starts, uploadLog, reordered>>

\* handleBgUpload up to its await (beforeUpload of "Upload Custom BG")
HandleBgUpload ==
    /\ variant = "advanced"
    /\ bgCalls < MaxBgUploads
    /\ bgCalls' = bgCalls + 1
    /\ bgUploads' = bgUploads + 1
    /\ notice' = <<>>
    /\ UNCHANGED <<widget, variant, editorState, mediaRecorderRef, micRequests,
                   stopEvents, uploads, remixes, trimmers, calls, issued,
                   starts, uploadLog, reordered>>

\* a variant of BgUploadSucceeds that handles the answer as customUpload does
BgUploadSucceedsAsClip ==
    /\ bgUploads > 0
    /\ bgUploads' = bgUploads - 1
    /\ \E url \in ServerUrls :
           /\ backgroundMusic' = url
           /\ orderedClips' = AppendClip(orderedClips, NewClip("bg", url))
           /\ uploadedFiles' = AppendClip(uploadedFiles, NewClip("bg", url))
           /\ trimmers' = Append(trimmers, Len(orderedClips) + 1)
    /\ notice' = <<"Background track uploaded!">>
    /\ UNCHANGED <<widget, variant, remixUrl, remixing, recording, mediaRecorderRef,
                   micRequests, stopEvents, uploads, remixes, calls, bgCalls,
                   issued, starts, uploadLog, reordered>>

\* handleBgUpload after its await, the request answered with { url }
BgUploadSucceeds ==
    /\ bgUploads > 0
    /\ bgUploads' = bgUploads - 1
    /\ \E url \in ServerUrls : backgroundMusic' = url
    /\ notice' = <<"Background track uploaded!">>
    /\ UNCHANGED <<widget, variant, uploadedFiles, orderedClips, remixUrl, remixing,
                   recording, mediaRecorderRef, micRequests, stopEvents,
                   uploads, remixes, trimmers, calls, bgCalls, issued, starts,
                   uploadLog, reordered>>

\* handleBgUpload's catch
BgUploadFails ==
    /\ bgUploads > 0
    /\ bgUploads' = bgUploads - 1
    /\ notice' = <<"Failed to upload background track">>
    /\ UNCHANGED <<widget, variant, editorState, mediaRecorderRef, micRequests,
                   stopEvents, uploads, remixes, trimmers, calls, bgCalls,
                   issued, starts, uploadLog, reordered>>

-----------------------------------------------------------------------------
\* Drag-and-drop list

DistinctUrls(list) ==
    \A i, j \in 1..Len(list) : list[i].url = list[j].url => i = j

\* The waveform components are keyed by clip.url.  With distinct keys each
\* keeps its instance (and the index its handler captured) and moves with
\* its clip; with a repeated key the match is not defined: a position gets an
\* instance that was rendered under the same key, or a newly mounted one.
TrimmersAfterMove(list, old, from, to) ==
    IF DistinctUrls(list)
    THEN {MoveItem(old, from, to)}
    ELSE LET new == MoveItem(list, from, to) IN
         {t \in [1..Len(list) -> 1..Len(list)] :
             \A k \in 1..Len(list) :
                 \/ t[k] = k
                 \/ \E j \in 1..Len(list) :
                        list[j].url = new[k].url /\ t[k] = old[j]}

\* ReactSortable list={orderedClips} setList={setOrderedClips}
Reorder ==
    \E from \in 1..Len(orderedClips), to \in 1..Len(orderedClips) :
        /\ from # to
        /\ orderedClips' = MoveItem(orderedClips, from, to)
        /\ trimmers' \in IF variant = "advanced"
                         THEN TrimmersAfterMove(orderedClips, trimmers, from, to)
                         ELSE {trimmers}
        /\ reordered' = TRUE
        /\ notice' = <<>>
        /\ UNCHANGED <<widget, variant, uploadedFiles, remixUrl, remixing, recording,
                       backgroundMusic, mediaRecorderRef, micRequests,
                       stopEvents, uploads, bgUploads, remixes, calls, bgCalls,
                       issued, starts, uploadLog>>

-----------------------------------------------------------------------------
\* 7) WaveformTrimmer: one component, driven by its parent's renders

\* the clip props a parent can hand down (trim fields only)
TrimmerClips ==
    {c \in [trimStart : TrimValues, trimEnd : TrimValues] :
        c.trimStart <= c.trimEnd}

\* getDuration() of a loaded track
Durations == {10, 20}

Max(a, b) == IF a >= b THEN a ELSE b

\* a variant of EffectCleanup that releases nothing
EffectCleanupKeepingInstance(ref, live) == [ref |-> ref, live |-> live]

\* the function the effect returns: destroy the instance held, clear the ref
EffectCleanup(ref, live) ==
    IF ref # {}
    THEN [ref |-> {}, live |-> live \ ref]
    ELSE [ref |-> ref, live |-> live]

\* what React runs before the next effect run or at removal: the cleanup the
\* last run returned, if it returned one
RunCleanup(ref, live) ==
    IF cleanupSet THEN EffectCleanup(ref, live) ELSE [ref |-> ref, live |-> live]

\* the effect body for the props (audioUrl, clip), entered with the ref and
\* the live instances as the cleanup left them
RunEffect(audioUrl, clip, ref, live) ==
    IF audioUrl = NULL
    THEN /\ waveSurfer' = ref
         /\ liveWidgets' = live
         /\ cleanupSet' = FALSE
         /\ region' = IF ref = {} THEN {} ELSE region
         /\ UNCHANGED <<trimmerClip, createdWidgets, peakLive>>
    ELSE LET afterDestroy == IF ref # {} THEN live \ ref ELSE live
             id == createdWidgets + 1
         IN  /\ createdWidgets < MaxWidgets
             /\ waveSurfer' = {id}
             /\ liveWidgets' = afterDestroy \cup {id}
             /\ createdWidgets' = id
             /\ peakLive' = Max(peakLive, Cardinality(afterDestroy) + 1)
             /\ cleanupSet' = TRUE
             /\ region' = {}
             /\ trimmerClip' = {clip}

\* the parent renders a WaveformTrimmer for the first time: the effect runs
\* with a fresh ref
TrimmerMount ==
    /\ variant = "advanced"
    /\ ~trimmerMounted
    /\ \E audioUrl \in ServerUrls \cup {NULL}, clip \in TrimmerClips :
           /\ trimmerMounted' = TRUE
           /\ trimmerUrl' = audioUrl
           /\ RunEffect(audioUrl, clip, {}, liveWidgets)
    /\ UNCHANGED <<variant, editorState, mediaRecorderRef, micRequests,
                   stopEvents, uploads, bgUploads, remixes, trimmers, notice,
                   calls, bgCalls, issued, starts, uploadLog, reordered>>

\* the parent renders it again: the effect depends on [audioUrl] only, so it
\* is cleaned up and re-run exactly when the url differs
TrimmerRerender ==
    /\ trimmerMounted
    /\ \E audioUrl \in ServerUrls \cup {NULL}, clip \in TrimmerClips :
           IF audioUrl = trimmerUrl
           THEN UNCHANGED widget
           ELSE LET after == RunCleanup(waveSurfer, liveWidgets) IN
                /\ trimmerUrl' = audioUrl
                /\ RunEffect(audioUrl, clip, after.ref, after.live)
                /\ UNCHANGED trimmerMounted
    /\ UNCHANGED <<variant, editorState, mediaRecorderRef, micRequests,
                   stopEvents, uploads, bgUploads, remixes, trimmers, notice,
                   calls, bgCalls, issued, starts, uploadLog, reordered>>

\* the component is removed: the cleanup runs, the ref goes with the component
TrimmerUnmount ==
    /\ trimmerMounted
    /\ LET after == RunCleanup(waveSurfer, liveWidgets) IN
           /\ liveWidgets' = after.live
           /\ waveSurfer' = {}
    /\ trimmerMounted' = FALSE
    /\ trimmerUrl' = NULL
    /\ trimmerClip' = {}
    /\ cleanupSet' = FALSE
    /\ region' = {}
    /\ UNCHANGED <<createdWidgets, peakLive>>
    /\ UNCHANGED <<variant, editorState, mediaRecorderRef, micRequests,
                   stopEvents, uploads, bgUploads, remixes, trimmers, notice,
                   calls, bgCalls, issued, starts, uploadLog, reordered>>

\* "ready" of the instance held: the default region from the clip the effect
\* closed over
WaveReady ==
    /\ waveSurfer # {}
    /\ waveSurfer \subseteq liveWidgets
    /\ region = {}
    /\ \E duration \in Durations, clip \in trimmerClip :
           region' =
               {[start |-> clip.trimStart,
                 end |-> IF clip.trimEnd # 0 /\ clip.trimEnd < duration
                         THEN clip.trimEnd
                         ELSE duration]}
    /\ UNCHANGED <<trimmerMounted, trimmerUrl, trimmerClip, waveSurfer,
                   cleanupSet, liveWidgets, createdWidgets, peakLive>>
    /\ UNCHANGED <<variant, editorState, mediaRecorderRef, micRequests,
                   stopEvents, uploads, bgUploads, remixes, trimmers, notice,
                   calls, bgCalls, issued, starts, uploadLog, reordered>>

-----------------------------------------------------------------------------
Next ==
    \/ CustomUpload
    \/ UploadSucceeds
    \/ UploadFails
    \/ StartRecording
    \/ MicGranted
    \/ MicDenied
    \/ RecorderStartFails
    \/ StopRecording
    \/ HandleRecordingStop
    \/ HandleRemix
    \/ RemixSucceeds
    \/ RemixFails
    \/ SliderChange
    \/ RegionUpdated
    \/ SetBackgroundMusic
    \/ HandleBgUpload
    \/ BgUploadSucceeds
    \/ BgUploadFails
    \/ Reorder
    \/ TrimmerMount
    \/ TrimmerRerender
    \/ TrimmerUnmount
    \/ WaveReady

Spec == Init /\ [][Next]_vars


-----------------------------------------------------------------------------
\* The editor with part of its controls in use

\* uploading, recording and dragging
NextUpload ==
    \/ CustomUpload
    \/ UploadSucceeds
    \/ UploadFails
    \/ StartRecording
    \/ MicGranted
    \/ MicDenied
    \/ RecorderStartFails
    \/ StopRecording
    \/ HandleRecordingStop
    \/ Reorder

SpecUpload == Init /\ [][NextUpload]_vars

\* uploading, dragging and editing clips
NextEdit ==
    \/ CustomUpload
    \/ UploadSucceeds
    \/ Reorder
    \/ SliderChange
    \/ RegionUpdated

SpecEdit == Init /\ [][NextEdit]_vars

\* uploading, dragging and remixing
NextRemix ==
    \/ CustomUpload
    \/ UploadSucceeds
    \/ Reorder
    \/ HandleRemix
    \/ RemixSucceeds
    \/ RemixFails

SpecRemix == Init /\ [][NextRemix]_vars

\* the same, where every POST /remix is eventually answered
SpecRemixFair == SpecRemix /\ WF_vars(RemixSucceeds \/ RemixFails)

\* uploading, trimming and remixing
NextTrim ==
    \/ CustomUpload
    \/ UploadSucceeds
    \/ RegionUpdated
    \/ HandleRemix
    \/ RemixSucceeds
    \/ RemixFails

SpecTrim == Init /\ [][NextTrim]_vars

\* uploading clips and choosing or uploading background music
NextBackground ==
    \/ CustomUpload
    \/ UploadSucceeds
    \/ SetBackgroundMusic
    \/ HandleBgUpload
    \/ BgUploadSucceeds
    \/ BgUploadFails
    \/ HandleRemix
    \/ RemixSucceeds
    \/ RemixFails

SpecBackground == Init /\ [][NextBackground]_vars

\* one WaveformTrimmer through its life
NextTrimmer ==
    \/ TrimmerMount
    \/ TrimmerRerender
    \/ TrimmerUnmount
    \/ WaveReady

SpecTrimmer == Init /\ [][NextTrimmer]_vars


-----------------------------------------------------------------------------
\* Properties

\* the requests a step issues
NewRemixes == remixes' \ remixes

\* the urls a request body lists, in order
PayloadUrls(payload) ==
    IF "clips" \in DOMAIN payload
    THEN [i \in 1..Len(payload.clips) |-> payload.clips[i].url]
    ELSE payload.urls

\* name and url of each entry of a list
Identity(list) ==
    [i \in 1..Len(list) |-> [name |-> list[i].name, url |-> list[i].url]]

\* the successful uploads in the order they were called
LogInCallOrder ==
    [i \in 1..Len(uploadLog) |->
        CHOOSE e \in Range(uploadLog) :
            Cardinality({d \in Range(uploadLog) : d.call < e.call}) = i - 1]

\* C1: submission guard.  handleRemix invoked while an earlier remix request
\* has not resolved issues no second POST: at most one remix request is
\* outstanding in every reachable state.
C1_AtMostOneRemixOutstanding == Cardinality(remixes) <= 1

\* C2 as stated: with no reorder so far, the ordered collection holds one
\* clip per successful upload, in the order the uploads were called.
C2_ClipsInCallOrder ==
    ~reordered => Identity(orderedClips) = Identity(LogInCallOrder)

\* C2 as amended: with no reorder so far, the ordered collection holds one
\* clip per successful upload, in the order the uploads completed, and
\* uploads answered with the same url each have their clip.
C2_ClipsInCompletionOrder ==
    ~reordered =>
        /\ Len(orderedClips) = Len(uploadLog)
        /\ Identity(orderedClips) = Identity(uploadLog)

\* two overlapping uploads answered with the same url, the later call first
C2_Witness ==
    /\ ~reordered
    /\ Len(orderedClips) = 2
    /\ Len(uploadLog) = 2
    /\ uploadLog[1].call > uploadLog[2].call
    /\ uploadLog[1].url = uploadLog[2].url
    /\ uploadLog[1].name # uploadLog[2].name

\* C3: a request issued by handleRemix lists the clips' urls in the order of
\* the ordered collection at the moment of submission, one entry per clip,
\* each url one the upload endpoint returned.
C3_PayloadInCollectionOrder ==
    [][\A req \in NewRemixes :
          /\ PayloadUrls(req.payload) =
                 [i \in 1..Len(orderedClips) |-> orderedClips[i].url]
          /\ \A i \in 1..Len(orderedClips) :
                 \E e \in Range(uploadLog) : PayloadUrls(req.payload)[i] = e.url
      ]_vars

\* upload A, upload B, drag B above A, submit: the body lists [B, A]
C3_Witness ==
    /\ reordered
    /\ Len(uploadLog) = 2
    /\ uploadLog[1].url = "/uploads/a.mp3"
    /\ uploadLog[2].url = "/uploads/b.mp3"
    /\ \E req \in remixes :
           PayloadUrls(req.payload) = <<"/uploads/b.mp3", "/uploads/a.mp3">>

\* C4 as stated: the trimEnd sent for a clip is the clip's trimEnd when that
\* is greater than 0 and the sentinel 99999 when it is 0.
C4_SpecSentinelSent ==
    [][\A req \in NewRemixes :
          "clips" \in DOMAIN req.payload =>
              \A i \in 1..Len(orderedClips) :
                  req.payload.clips[i].trimEnd =
                      IF orderedClips[i].trimEnd > 0
                      THEN orderedClips[i].trimEnd ELSE 99999
      ]_vars

\* C4 as amended: the trimEnd sent for a clip is the clip's trimEnd when that
\* is greater than 0 and 9999 otherwise; 0 is never sent.
C4_FallbackSent ==
    [][\A req \in NewRemixes :
          "clips" \in DOMAIN req.payload =>
              /\ Len(req.payload.clips) = Len(orderedClips)
              /\ \A i \in 1..Len(orderedClips) :
                     /\ req.payload.clips[i].trimEnd =
                            IF orderedClips[i].trimEnd > 0
                            THEN orderedClips[i].trimEnd ELSE 9999
                     /\ req.payload.clips[i].trimEnd # 0
      ]_vars

\* one body with a trimmed clip sent as it is and an untrimmed one replaced
C4_Witness ==
    \E req \in remixes :
        /\ "clips" \in DOMAIN req.payload
        /\ \E i, j \in 1..Len(req.payload.clips) :
               /\ req.payload.clips[i].trimEnd = 12
               /\ req.payload.clips[j].trimEnd = 9999
               /\ orderedClips[j].trimEnd = 0

\* C5: handleRemix on an empty collection issues no request, surfaces the
\* validation error and leaves remixing, remixUrl, the collection and the
\* background selection unchanged.
C5_EmptySubmissionAborts ==
    [][(HandleRemix /\ Len(orderedClips) = 0) =>
          /\ remixes' = remixes
          /\ issued' = issued
          /\ notice' \in {<<"Please add at least one audio clip.">>,
                          <<"Please upload or record at least one audio file.">>}
          /\ UNCHANGED <<remixing, remixUrl, orderedClips, uploadedFiles,
                         backgroundMusic>>
      ]_vars

\* the validation error shown after a submission with nothing uploaded
C5_Witness ==
    /\ orderedClips = <<>>
    /\ notice = <<"Please add at least one audio clip.">>
    /\ remixes = {}
    /\ ~remixing


\* how often a clip occurs in a list
Occurrences(list, clip) == Cardinality({i \in 1..Len(list) : list[i] = clip})

\* the updates the controls can hand to updateClip
ClipUpdates ==
    {[speed |-> val] : val \in SliderValues} \cup
    {[trimStart |-> start, trimEnd |-> end] :
        start \in TrimValues, end \in TrimValues}

\* C6: a drag-reorder is a pure permutation: the same clips, each as often
\* as before (so the same multiset of sourceUrl and the same length), with
\* name, trimStart, trimEnd and speed of every clip as they were.
C6_ReorderIsPermutation ==
    [][Reorder =>
          /\ Len(orderedClips') = Len(orderedClips)
          /\ \A clip \in Range(orderedClips) \cup Range(orderedClips') :
                 Occurrences(orderedClips', clip) = Occurrences(orderedClips, clip)
          /\ \A url \in ServerUrls :
                 Cardinality({i \in 1..Len(orderedClips') :
                                  orderedClips'[i].url = url}) =
                 Cardinality({i \in 1..Len(orderedClips) :
                                  orderedClips[i].url = url})
      ]_vars

\* two clips of the same url, one of them edited, after a drag: the edited
\* one now comes first
C6_Witness ==
    /\ variant = "advanced"
    /\ reordered
    /\ Len(orderedClips) = 2
    /\ Len(uploadedFiles) = 2
    /\ orderedClips[1].url = orderedClips[2].url
    /\ uploadedFiles[1].name = "a.mp3"
    /\ uploadedFiles[2].name = "b.mp3"
    /\ orderedClips[1].name = "b.mp3"
    /\ orderedClips[1].speed = 20
    /\ orderedClips[2].name = "a.mp3"
    /\ orderedClips[2].speed = 10

\* C7: updateClip(i, fields) with i a valid index sets the named fields of
\* the clip at position i and changes nothing else: length and order, every
\* other clip, and url, name and the fields not named of clip i stay.
C7_UpdateClipFrame ==
    [][\A index \in 1..Len(orderedClips), newData \in ClipUpdates :
          UpdateClip(index, newData) =>
              /\ Len(orderedClips') = Len(orderedClips)
              /\ \A i \in 1..Len(orderedClips) :
                     i # index => orderedClips'[i] = orderedClips[i]
              /\ DOMAIN orderedClips'[index] = DOMAIN orderedClips[index]
              /\ \A f \in DOMAIN orderedClips[index] :
                     orderedClips'[index][f] =
                         IF f \in DOMAIN newData
                         THEN newData[f] ELSE orderedClips[index][f]
              /\ orderedClips'[index].url = orderedClips[index].url
              /\ orderedClips'[index].name = orderedClips[index].name
      ]_vars

\* a trimmed clip whose speed was then set, next to an untouched clip
C7_Witness ==
    /\ Len(orderedClips) = 2
    /\ variant = "advanced"
    /\ orderedClips[1].speed = 20
    /\ orderedClips[1].trimStart = 12
    /\ orderedClips[1].trimEnd = 12
    /\ orderedClips[2] = NewClip(orderedClips[2].name, orderedClips[2].url)

\* the requests a step resolves
ResolvedRemixes == remixes \ remixes'

\* C8 as stated, for a call made while a render exists: when the remix
\* request fails, remixUrl is the render that existed before the handleRemix
\* call that issued the request, and remixing is false.
C8_PriorResultKept ==
    [][RemixFails =>
          \A req \in ResolvedRemixes :
              req.prior # NULL => (remixUrl' = req.prior /\ remixing' = FALSE)
      ]_vars

\* C8 as amended: when a remix request fails, remixing is set to false and
\* remixUrl stays what it was just before the failure was handled; the
\* render that existed before the handleRemix call is kept by the couple
\* editor's call and cleared by the advanced editor's call.
C8_FailureKeepsCurrentResult ==
    [][/\ RemixFails => (remixing' = FALSE /\ remixUrl' = remixUrl)
       /\ \A req \in NewRemixes :
              remixUrl' = IF variant = "advanced" THEN NULL ELSE remixUrl
      ]_vars

\* the advanced editor after a render and then a failed second attempt
C8_Witness ==
    /\ variant = "advanced"
    /\ issued = 2
    /\ remixes = {}
    /\ ~remixing
    /\ notice = <<"Failed to create remix.">>
    /\ remixUrl = NULL

\* C9: a failed upload changes nothing of the editor's state: the ordered
\* collection, the uploads record, the background selection, remixing,
\* recording and remixUrl stay, and an error notification is surfaced.
C9_FailedUploadChangesNothing ==
    [][UploadFails =>
          /\ UNCHANGED <<orderedClips, uploadedFiles, backgroundMusic,
                         remixing, recording, remixUrl>>
          /\ UNCHANGED <<trimmers, mediaRecorderRef, uploadLog>>
          /\ Len(notice') >= 1
          /\ notice'[1] = "Upload failed"
      ]_vars

\* an upload that failed while a recording is running and a clip is present
C9_Witness ==
    /\ notice = <<"Upload failed">>
    /\ Len(orderedClips) = 1
    /\ recording

\* C10: a successful background upload makes the returned locator the
\* background selection and adds no clip to the collection or the uploads
\* record; a failed one leaves the background selection as it was.
C10_BackgroundUpload ==
    [][/\ BgUploadSucceeds =>
              /\ backgroundMusic' \in ServerUrls
              /\ UNCHANGED <<orderedClips, uploadedFiles, trimmers>>
       /\ BgUploadFails =>
              UNCHANGED <<backgroundMusic, orderedClips, uploadedFiles>>
      ]_vars

\* an uploaded track as the background, with the uploaded clip still alone
C10_Witness ==
    /\ notice = <<"Background track uploaded!">>
    /\ backgroundMusic \in ServerUrls
    /\ Len(orderedClips) = 1
    /\ Len(uploadedFiles) = 1


\* the clips of a list that came from the recorder
RecordedClips(list) == {i \in 1..Len(list) : list[i].name = RecordingName}

\* C11: stopRecording with a running recorder clears recording at once, before
\* the recorder's stop callback has run and before the recorded file is
\* uploaded; the recorded clip enters the collection only later, in the step
\* in which that upload succeeds.
C11_StopClearsRecordingAtOnce ==
    [][/\ (StopRecording /\ mediaRecorderRef = "recording") =>
              /\ recording' = FALSE
              /\ stopEvents' = stopEvents + 1
              /\ UNCHANGED <<orderedClips, uploadedFiles, uploads>>
       /\ HandleRecordingStop =>
              UNCHANGED <<orderedClips, uploadedFiles, recording>>
       /\ RecordedClips(orderedClips') # RecordedClips(orderedClips) =>
              \/ Reorder
              \/ /\ UploadSucceeds
                 /\ \E req \in uploads \ uploads' : req.fromRecorder
      ]_vars

\* recording already cleared while the recorded file is still being uploaded
C11_Witness ==
    /\ ~recording
    /\ mediaRecorderRef = "inactive"
    /\ stopEvents = 0
    /\ \E req \in uploads : req.fromRecorder
    /\ RecordedClips(orderedClips) = {}

\* C12: recording becomes true only in the step in which microphone access
\* was granted and the recorder started; a denial or a failed start leaves
\* recording and the collection as they were and surfaces an error.
C12_RecordingOnlyWhenStarted ==
    [][/\ (~recording /\ recording') =>
              (MicGranted /\ mediaRecorderRef' = "recording")
       /\ (MicDenied \/ RecorderStartFails) =>
              /\ UNCHANGED <<recording, orderedClips, uploadedFiles>>
              /\ notice' = <<"Could not start recording">>
       /\ StartRecording => UNCHANGED <<recording, orderedClips>>
      ]_vars

\* a denied request with a clip present: not recording, the error shown
C12_Witness ==
    /\ notice = <<"Could not start recording">>
    /\ ~recording
    /\ starts = 1
    /\ micRequests = 0
    /\ Len(orderedClips) = 1


\* C13: in every reachable state in which a POST /remix is outstanding,
\* remixing is true.
C13_RemixingWhileOutstanding == remixes # {} => remixing

\* C14: every response to a POST /remix, success or failure, resets remixing
\* to false in its own step, and when every request is eventually answered a
\* state with remixing true always leads to one with remixing false; with no
\* request outstanding remixing is false.
C14_RemixingEventuallyReset ==
    /\ [][(RemixSucceeds \/ RemixFails) => remixing' = FALSE]_vars
    /\ [](remixes = {} => ~remixing)
    /\ (remixing ~> ~remixing)

\* two requests issued, the last answer a failure, remixing reset
C14_Witness ==
    /\ issued = 2
    /\ remixes = {}
    /\ ~remixing
    /\ notice = <<"Failed to create remix.">>


\* how often a (name, url) pair occurs in a list of clips or log entries
Copies(list, name, url) ==
    Cardinality({i \in 1..Len(list) : list[i].name = name /\ list[i].url = url})

\* C15: a clip enters the ordered collection only through a successful
\* upload: the collection holds exactly one clip per answered POST /upload,
\* each with the url that answer carried, and none for an upload in flight or
\* rejected; the clip a successful upload appends is last and, in the advanced
\* editor, has trimStart 0, trimEnd 0 and speed 1.0.
C15_ClipsOnlyAfterUpload ==
    /\ [](/\ Len(orderedClips) = Len(uploadLog)
          /\ Len(orderedClips) + Cardinality(uploads) <= calls
          /\ \A i \in 1..Len(orderedClips) :
                 /\ orderedClips[i].url \in ServerUrls
                 /\ Copies(orderedClips, orderedClips[i].name,
                           orderedClips[i].url)
                    = Copies(uploadLog, orderedClips[i].name,
                             orderedClips[i].url))
    /\ [][/\ Len(orderedClips') # Len(orderedClips) =>
                 /\ UploadSucceeds
                 /\ Len(orderedClips') = Len(orderedClips) + 1
                 /\ SubSeq(orderedClips', 1, Len(orderedClips)) = orderedClips
                 /\ variant = "advanced" =>
                        LET new == orderedClips'[Len(orderedClips')] IN
                        /\ new.trimStart = 0
                        /\ new.trimEnd = 0
                        /\ new.speed = 10
          /\ (CustomUpload \/ HandleRecordingStop \/ UploadFails) =>
                 UNCHANGED <<orderedClips, uploadedFiles>>
         ]_vars

\* one upload answered and its clip present, another still in flight
C15_Witness ==
    /\ variant = "advanced"
    /\ Len(orderedClips) = 1
    /\ orderedClips[1] = [name |-> orderedClips[1].name,
                          url |-> orderedClips[1].url,
                          trimStart |-> 0, trimEnd |-> 0, speed |-> 10]
    /\ uploads # {}
    /\ calls = 2

\* C16: the urls of the clips in the ordered collection are pairwise
\* distinct in every reachable state.
C16_SourceUrlsDistinct ==
    \A i, j \in 1..Len(orderedClips) :
        orderedClips[i].url = orderedClips[j].url => i = j


\* C18: no step of a remix submission (the call, with or without a request,
\* the success continuation, the failure continuation) changes the ordered
\* collection, the uploads record or the background selection.
C18_RemixLeavesCollection ==
    [][(HandleRemix \/ RemixSucceeds \/ RemixFails) =>
          UNCHANGED <<orderedClips, uploadedFiles, backgroundMusic>>]_vars

\* a successful and then a failed remix with a clip and an uploaded background
C18_Witness ==
    /\ issued = 2
    /\ remixes = {}
    /\ remixUrl # NULL
    /\ notice = <<"Failed to create remix.">>
    /\ Len(orderedClips) = 1
    /\ backgroundMusic \in ServerUrls

\* C19: every clip of the advanced editor has a speed between 0.5 and 2.0
\* (5..20 in tenths) in every reachable state.
C19_SpeedInRange ==
    variant = "advanced" =>
        \A i \in 1..Len(orderedClips) :
            5 <= orderedClips[i].speed /\ orderedClips[i].speed <= 20

\* after a reorder and a trim, one clip at the slowest and one at the fastest
C19_Witness ==
    /\ variant = "advanced"
    /\ reordered
    /\ Len(orderedClips) = 2
    /\ orderedClips[1].speed = 20
    /\ orderedClips[2].speed = 5
    /\ orderedClips[2].trimEnd = 12

\* C20: with pairwise distinct urls, a trim gesture on the waveform of the
\* clip rendered at position k sets the trim of that clip and leaves every
\* other clip as it was.
C20_TrimUpdatesOwnClip ==
    [][\A k \in 1..Len(orderedClips), start \in TrimValues, end \in TrimValues :
          (DistinctUrls(orderedClips) /\ RegionUpdatedAt(k, start, end)) =>
              /\ orderedClips'[k] =
                     MergeClip(orderedClips[k],
                               [trimStart |-> start, trimEnd |-> end])
              /\ \A i \in 1..Len(orderedClips) :
                     i # k => orderedClips'[i] = orderedClips[i]
      ]_vars


\* C17: a WaveformTrimmer never has more than one live WaveSurfer instance,
\* not even inside an effect run (the old one is destroyed before the new one
\* is created); the only live instance is the one its ref holds; with no
\* audioUrl or after removal none is live, so every instance created is
\* either the one held or already destroyed.
C17_WidgetLifecycle ==
    /\ Cardinality(liveWidgets) <= 1
    /\ peakLive <= 1
    /\ liveWidgets = waveSurfer
    /\ liveWidgets \subseteq 1..createdWidgets
    /\ ~trimmerMounted => liveWidgets = {}
    /\ (trimmerMounted /\ trimmerUrl = NULL) => liveWidgets = {}
    /\ (trimmerMounted /\ trimmerUrl # NULL) => liveWidgets = {createdWidgets}

\* created for one url, replaced for another, then removed: all destroyed
C17_Witness ==
    /\ ~trimmerMounted
    /\ createdWidgets = 2
    /\ liveWidgets = {}
    /\ peakLive = 1


\* C21: in the advanced editor, whenever remixing is false and a result is
\* shown, the result is the answer to the request issued last: no answer to
\* an older request replaces it, and none is shown when the request issued
\* last failed.
C21_ResultIsOfLatestRequest ==
    (variant = "advanced" /\ ~remixing /\ remixUrl # NULL) =>
        remixUrl = BlobUrl(issued)

=============================================================================
